---- MODULE Spec2Model ----
(***************************************************************************)
(* A model of baxter_kinematics (src/src/baxter_pykdl/baxter_pykdl.py):    *)
(* the engine built by __init__, the Joint State Source it reads through   *)
(* baxter_interface.Limb, and the query methods joints_to_kdl,             *)
(* forward_position_kinematics, forward_velocity_kinematics,               *)
(* inverse_kinematics, jacobian, jacobian_transpose,                       *)
(* jacobian_pseudo_inverse, inertia, cart_inertia and coriolis_matrix.     *)
(*                                                                         *)
(* Scalars are small integers.  A Python dict is a function whose DOMAIN   *)
(* is its key set, wrapped as [tag |-> "dict", d |-> f]; Python None is    *)
(* [tag |-> "None"].  The PyKDL solvers are external: a solver's output is *)
(* a term that records the solver and the input it was handed, except the  *)
(* joint-space inertia (whose numbers coriolis_matrix differentiates) and  *)
(* the iterative inverse-kinematics solver (whose status and result are    *)
(* chosen nondeterministically).                                           *)
(***************************************************************************)
EXTENDS Integers, Sequences, FiniteSets, TLC

VARIABLES self, source, call

vars == <<self, source, call>>

(***************************************************************************)
(* Bounds and program constants                                            *)
(***************************************************************************)
\* symbols('q1:8') and symbols('dq1:8'): seven position and seven velocity symbols
NumSymbols == 7
\* number of distinct joint state messages the driver may deliver
MaxMsg == 2
\* number of distinct complete explicit joint dictionaries a caller may pass
MaxArg == 2
\* scalars of messages and arguments are taken modulo this
ValMod == 3

None == [tag |-> "None"]
Dict(f) == [tag |-> "dict", d |-> f]

Limbs == {"left", "right"}
\* baxter_interface.Limb(limb).joint_names(): limb + '_' + joint, in chain order
JointSuffixes == <<"s0", "s1", "e0", "e1", "w0", "w1", "w2">>
LimbJointNames(limb) == [i \in 1..Len(JointSuffixes) |-> limb \o "_" \o JointSuffixes[i]]

Zeros(n) == [i \in 1..n |-> 0]

(***************************************************************************)
(* __init__                                                                *)
(***************************************************************************)
Construct(limb) ==
    [ _base_link   |-> "base",
      _tip_link    |-> limb \o "_gripper",
      _arm_chain   |-> <<"base", limb \o "_gripper">>,
      _joint_names |-> LimbJointNames(limb),
      _num_jnts    |-> Len(LimbJointNames(limb)) ]

(***************************************************************************)
(* Joint State Source: the limb interface's dictionaries, filled by the    *)
(* driver's joint state messages.                                          *)
(***************************************************************************)
MsgAngle(m, i)    == (i + m) % ValMod
MsgVelocity(m, i) == ((m - 1) * i) % ValMod
MsgEffort(m, i)   == (2 * i + m) % ValMod

\* the dictionaries after message m was received for the joints at indexes idxs
Snapshot(names, m, idxs) ==
    [ angles     |-> [n \in {names[i] : i \in idxs} |->
                        MsgAngle(m, CHOOSE i \in idxs : names[i] = n)],
      velocities |-> [n \in {names[i] : i \in idxs} |->
                        MsgVelocity(m, CHOOSE i \in idxs : names[i] = n)],
      efforts    |-> [n \in {names[i] : i \in idxs} |->
                        MsgEffort(m, CHOOSE i \in idxs : names[i] = n)] ]

Merge(old, new) ==
    [n \in (DOMAIN old) \cup (DOMAIN new) |-> IF n \in DOMAIN new THEN new[n] ELSE old[n]]

(***************************************************************************)
(* Results of a method: a returned value or a raised exception             *)
(***************************************************************************)
Return(v) == [err |-> "none", val |-> v]
Raise(e)  == [err |-> e, val |-> None]

JntArray(data) == [tag |-> "JntArray", data |-> data]
\* PyKDL.JntArrayVel(q): q is the given array, qdot an array of zeros of its size
JntArrayVel(arr) == [tag |-> "JntArrayVel", q |-> arr.data, qdot |-> Zeros(Len(arr.data))]

Kinds == {"positions", "velocities", "torques"}

\* the dictionary joints_to_kdl reads
cur_type_values(src, type, values) ==
    IF values = None
    THEN CASE type = "positions"  -> src.angles
           [] type = "velocities" -> src.velocities
           [] type = "torques"    -> src.efforts
    ELSE values.d

\* a faulty variant: the loop fills the array in reverse chain order
joints_to_kdl_reversed(slf, src, type, values) ==
    LET cur == cur_type_values(src, type, values)
        n == slf._num_jnts
        kdl_array == JntArray([idx \in 1..n |-> cur[slf._joint_names[n + 1 - idx]]])
    IN  IF \E idx \in 1..Len(slf._joint_names) : slf._joint_names[idx] \notin DOMAIN cur
        THEN Raise("KeyError")
        ELSE IF type = "velocities"
             THEN Return(JntArrayVel(kdl_array))
             ELSE Return(kdl_array)

\* a faulty variant: a missing joint name reads as 0 (cur_type_values.get(name, 0))
joints_to_kdl_defaulting(slf, src, type, values) ==
    LET cur == cur_type_values(src, type, values)
        kdl_array == JntArray([idx \in 1..slf._num_jnts |->
                        IF slf._joint_names[idx] \in DOMAIN cur
                        THEN cur[slf._joint_names[idx]] ELSE 0])
    IN  IF type = "velocities"
        THEN Return(JntArrayVel(kdl_array))
        ELSE Return(kdl_array)

joints_to_kdl(slf, src, type, values) ==
    LET cur == cur_type_values(src, type, values)
        kdl_array == JntArray([idx \in 1..slf._num_jnts |-> cur[slf._joint_names[idx]]])
    IN  IF \E idx \in 1..Len(slf._joint_names) : slf._joint_names[idx] \notin DOMAIN cur
        THEN Raise("KeyError")
        ELSE IF type = "velocities"
             THEN Return(JntArrayVel(kdl_array))
             ELSE Return(kdl_array)

(***************************************************************************)
(* External PyKDL solvers and numpy routines                               *)
(***************************************************************************)
\* a method's outcome: the exception or value, the joints_to_kdl results it
\* obtained, and the solver invocations it made, in order
Outcome(err, val, reads, solver) ==
    [err |-> err, val |-> val, reads |-> reads, solver |-> solver]

Invocation(name, arg) == [name |-> name, arg |-> arg]

\* ChainFkSolverPos_recursive.JntToCart: the end frame is a function of q
FkPosJntToCart(q) == [tag |-> "Frame", fn |-> "fk_p.JntToCart", q |-> q.data]
\* ChainFkSolverVel_recursive.JntToCart: the frame velocity is a function of (q, qdot)
FkVelJntToCart(qv) == [tag |-> "FrameVel", fn |-> "fk_v.JntToCart", q |-> qv.q, qdot |-> qv.qdot]
\* ChainJntToJacSolver.JntToJac: a 6 x n Jacobian, a function of q
JntToJac(n, q) ==
    [tag |-> "Jacobian", rows |-> 6, columns |-> n,
     at |-> [fn |-> "jac.JntToJac", q |-> q.data]]
\* ChainDynParam.JntToMass: the n x n joint-space inertia.  The chain's inertia
\* is M(q) = 2 * (I + q q^T): symmetric, positive definite, with even entries.
MassEntry(q, i, j) == 2 * ((IF i = j THEN 1 ELSE 0) + q[i] * q[j])
JntToMass(n, q) ==
    [tag |-> "JntSpaceInertiaMatrix", rows |-> n, columns |-> n,
     at |-> [i \in 1..n |-> [j \in 1..n |-> MassEntry(q.data, i, j)]]]

kdl_to_mat(data) ==
    [tag |-> "mat", rows |-> data.rows, columns |-> data.columns, at |-> data.at]

NpT(m)      == [tag |-> "T", of |-> m]
NpPinv(m)   == [tag |-> "pinv", of |-> m]
NpInv(m)    == [tag |-> "inv", of |-> m]
NpDot(a, b) == [tag |-> "dot", a |-> a, b |-> b]

(***************************************************************************)
(* forward kinematics, Jacobians, inertia                                  *)
(***************************************************************************)
forward_position_kinematics(slf, src, joint_values) ==
    LET r == joints_to_kdl(slf, src, "positions", joint_values)
        end_frame == FkPosJntToCart(r.val)
    IN  IF r.err # "none"
        THEN Outcome(r.err, None, <<r>>, <<>>)
        ELSE Outcome("none", [tag |-> "pose", frame |-> end_frame], <<r>>,
                     <<Invocation("fk_p.JntToCart", r.val)>>)

forward_velocity_kinematics(slf, src, joint_velocities) ==
    LET r == joints_to_kdl(slf, src, "velocities", joint_velocities)
        end_frame == FkVelJntToCart(r.val)
    IN  IF r.err # "none"
        THEN Outcome(r.err, None, <<r>>, <<>>)
        ELSE Outcome("none", [tag |-> "twist", frame |-> end_frame], <<r>>,
                     <<Invocation("fk_v.JntToCart", r.val)>>)

jacobian(slf, src, joint_values) ==
    LET r == joints_to_kdl(slf, src, "positions", joint_values)
    IN  IF r.err # "none"
        THEN Outcome(r.err, None, <<r>>, <<>>)
        ELSE Outcome("none", kdl_to_mat(JntToJac(slf._num_jnts, r.val)), <<r>>,
                     <<Invocation("jac.JntToJac", r.val)>>)

jacobian_transpose(slf, src, joint_values) ==
    LET j == jacobian(slf, src, joint_values)
    IN  IF j.err # "none" THEN j ELSE [j EXCEPT !.val = NpT(j.val)]

jacobian_pseudo_inverse(slf, src, joint_values) ==
    LET j == jacobian(slf, src, joint_values)
    IN  IF j.err # "none" THEN j ELSE [j EXCEPT !.val = NpPinv(j.val)]

inertia(slf, src, joint_values) ==
    LET r == joints_to_kdl(slf, src, "positions", joint_values)
    IN  IF r.err # "none"
        THEN Outcome(r.err, None, <<r>>, <<>>)
        ELSE Outcome("none", kdl_to_mat(JntToMass(slf._num_jnts, r.val)), <<r>>,
                     <<Invocation("dyn.JntToMass", r.val)>>)

(***************************************************************************)
(* inverse_kinematics                                                      *)
(***************************************************************************)
List(data) == [tag |-> "list", data |-> data]

Vector(x, y, z) == <<x, y, z>>
\* PyKDL.Rotation(): the identity
RotationIdentity == <<1, 0, 0, 0, 1, 0, 0, 0, 1>>
\* PyKDL.Rotation.Quaternion(x, y, z, w): the rotation matrix, row by row
RotationQuaternion(x, y, z, w) ==
    << w*w + x*x - y*y - z*z, 2*x*y - 2*w*z,         2*x*z + 2*w*y,
       2*x*y + 2*w*z,         w*w - x*x + y*y - z*z, 2*y*z - 2*w*x,
       2*x*z - 2*w*y,         2*y*z + 2*w*x,         w*w - x*x - y*y + z*z >>
\* PyKDL.Frame(rot, pos) and PyKDL.Frame(pos): a frame always holds a rotation
Frame(rot, pos) == [tag |-> "Frame", M |-> rot, p |-> pos]
FramePos(pos) == Frame(RotationIdentity, pos)

goal_pose(position, orientation) ==
    LET pos == Vector(position[1], position[2], position[3])
    IN  IF orientation # None
        THEN Frame(RotationQuaternion(orientation.data[1], orientation.data[2],
                                      orientation.data[3], orientation.data[4]), pos)
        ELSE FramePos(pos)

\* seed_array.resize(len(seed)) and the copy loop; the current angles otherwise
seed_array(slf, src, seed) ==
    IF seed # None
    THEN Return(JntArray([idx \in 1..Len(seed.data) |-> seed.data[idx]]))
    ELSE joints_to_kdl(slf, src, "positions", None)

\* a faulty variant: status 0 is taken for a failure
ik_return_strict(status, result_angles) ==
    IF status > 0
    THEN [tag |-> "ndarray", data |-> [i \in 1..Len(result_angles.data) |-> result_angles.data[i]]]
    ELSE None

\* the test of CartToJnt's status and the conversion of result_angles
ik_return(status, result_angles) ==
    IF status >= 0
    THEN [tag |-> "ndarray", data |-> [i \in 1..Len(result_angles.data) |-> result_angles.data[i]]]
    ELSE None

\* status and result are what ChainIkSolverPos_NR.CartToJnt reports and writes
\* into result_angles = JntArray(_num_jnts)
inverse_kinematics(slf, src, position, orientation, seed, status, result) ==
    LET sd   == seed_array(slf, src, seed)
        rds  == IF seed # None THEN <<>> ELSE <<sd>>
        goal == goal_pose(position, orientation)
        result_angles == JntArray([i \in 1..slf._num_jnts |-> result[i]])
    IN  IF sd.err # "none"
        THEN Outcome(sd.err, None, rds, <<>>)
        ELSE Outcome("none", ik_return(status, result_angles), rds,
                     <<Invocation("ik_p.CartToJnt",
                                  [seed |-> sd.val, goal |-> goal,
                                   status |-> status, result_angles |-> result_angles])>>)

(***************************************************************************)
(* coriolis_matrix: sympy expressions.  Every expression the method builds *)
(* is affine in the 2 * NumSymbols symbols: a constant plus a coefficient  *)
(* per symbol.  Symbol k is q_k, symbol NumSymbols + k is dq_k.            *)
(***************************************************************************)
Symbols == 1..(2 * NumSymbols)
q_symbols   == [k \in 1..NumSymbols |-> k]
dq_symbols  == [k \in 1..NumSymbols |-> NumSymbols + k]

\* Coefficients are exact rationals n/d in lowest terms with d > 0, so that
\* the factor 0.5 is exact.
Abs(x) == IF x < 0 THEN -x ELSE x
RECURSIVE GCD(_, _)
GCD(a, b) == IF b = 0 THEN a ELSE GCD(b, a % b)
Rat(n, d) ==
    LET g == GCD(Abs(n), Abs(d))
        sgn == IF d < 0 THEN -1 ELSE 1
    IN  [n |-> (sgn * n) \div g, d |-> (sgn * d) \div g]
RatAdd(a, b) == Rat(a.n * b.d + b.n * a.d, a.d * b.d)
RatSub(a, b) == Rat(a.n * b.d - b.n * a.d, a.d * b.d)
RatMul(a, b) == Rat(a.n * b.n, a.d * b.d)
RatZero == Rat(0, 1)
\* 0.5
RatHalf == Rat(1, 2)

\* the expression that is the rational r, and the one that is the number c
Const(r) == [const |-> r, lin |-> [s \in Symbols |-> RatZero]]
Num(c) == Const(Rat(c, 1))
ExprAdd(a, b) ==
    [const |-> RatAdd(a.const, b.const), lin |-> [s \in Symbols |-> RatAdd(a.lin[s], b.lin[s])]]
ExprSub(a, b) ==
    [const |-> RatSub(a.const, b.const), lin |-> [s \in Symbols |-> RatSub(a.lin[s], b.lin[s])]]
\* 0.5 * a
ExprHalf(a) ==
    [const |-> RatMul(RatHalf, a.const), lin |-> [s \in Symbols |-> RatMul(RatHalf, a.lin[s])]]
\* a * sym, for a free of symbols (a derivative of an affine expression)
ExprMulSym(a, sym) ==
    [const |-> RatZero, lin |-> [s \in Symbols |-> IF s = sym THEN a.const ELSE RatZero]]
\* expr.diff(sym)
Diff(e, sym) == Const(e.lin[sym])

\* sympy.Matrix(js_inertia): the matrix of the numbers of js_inertia
Matrix(mat) == [i \in 1..mat.rows |-> [j \in 1..mat.columns |-> Num(mat.at[i][j])]]

christoffel(M, q, i, j, k) ==
    ExprHalf(ExprSub(ExprAdd(Diff(M[i][j], q[k]), Diff(M[i][k], q[j])), Diff(M[j][k], q[i])))

RECURSIVE c_ij(_, _, _, _, _, _)
c_ij(M, q, q_dot, i, j, k) ==
    IF k = 0 THEN Num(0)
    ELSE ExprAdd(c_ij(M, q, q_dot, i, j, k - 1),
                 ExprMulSym(christoffel(M, q, i, j, k), q_dot[k]))

\* a faulty variant: the accumulator c_ij starts from M[i, j] instead of 0
compute_coriolis_matrix_seeded(M, q, q_dot) ==
    LET n == Len(q)
    IN  [i \in 1..n |-> [j \in 1..n |-> ExprAdd(M[i][j], c_ij(M, q, q_dot, i, j, n))]]

compute_coriolis_matrix(M, q, q_dot) ==
    LET n == Len(q)
    IN  [i \in 1..n |-> [j \in 1..n |-> c_ij(M, q, q_dot, i, j, n)]]

RECURSIVE EvalSum(_, _, _, _)
EvalSum(e, syms, vals, t) ==
    IF t = 0 THEN e.const
    ELSE RatAdd(EvalSum(e, syms, vals, t - 1), RatMul(e.lin[syms[t]], Rat(vals[t], 1)))

\* lambdify(syms, C)(*vals)
lambdify(syms, C, vals) ==
    [i \in DOMAIN C |-> [j \in DOMAIN C[i] |-> EvalSum(C[i][j], syms, vals, Len(syms))]]

\* JntArrayVel.value(): the q component
JntArrayVel_value(v) == JntArray(v.q)

\* lines 190-196, given the inertia and the two arrays the method obtained
coriolis_numeric(js_inertia, positions, velocities) ==
    LET C == compute_coriolis_matrix(Matrix(js_inertia), q_symbols, dq_symbols)
    IN  [tag |-> "ndarray",
         at |-> lambdify(q_symbols \o dq_symbols, C,
                         positions.data \o JntArrayVel_value(velocities).data)]

\* line 185, given the inertia and the Jacobian the method obtained
cart_inertia_value(js_inertia, jac) ==
    NpInv(NpDot(jac, NpDot(NpInv(js_inertia), NpT(jac))))

(***************************************************************************)
(* The state machine.  call is the query in progress or the last one       *)
(* finished: its method, arguments, position in the method, locals, the    *)
(* joints_to_kdl results and solver invocations so far, and its outcome.   *)
(***************************************************************************)
NoArgs ==
    [type |-> "", values |-> None, joint_values |-> None, joint_velocities |-> None,
     position |-> None, orientation |-> None, seed |-> None]
NoLocals == [js_inertia |-> None, q |-> None]

IdleCall ==
    [op |-> "none", args |-> NoArgs, pc |-> "idle", locals |-> NoLocals,
     reads |-> <<>>, solver |-> <<>>, err |-> "none", ret |-> None]

\* a method that ran to its end (returned or raised) with outcome o
Finished(op, args, o) ==
    [op |-> op, args |-> args, pc |-> "done", locals |-> NoLocals,
     reads |-> o.reads, solver |-> o.solver, err |-> o.err, ret |-> o.val]

\* a method suspended at pc after its first sub-call returned o
Suspended(op, args, pc, locals, o) ==
    [op |-> op, args |-> args, pc |-> pc, locals |-> locals,
     reads |-> o.reads, solver |-> o.solver, err |-> "none", ret |-> None]

\* the call after a later sub-call ended with outcome o and the method raised
\* or returned val
Resumed(c, pc, locals, o, val) ==
    [c EXCEPT !.pc = IF o.err # "none" THEN "done" ELSE pc,
              !.locals = locals,
              !.reads = @ \o o.reads,
              !.solver = @ \o o.solver,
              !.err = o.err,
              !.ret = IF o.err # "none" THEN None ELSE val]

CanStart == call.pc \in {"idle", "done"}

(***************************************************************************)
(* Inputs                                                                  *)
(***************************************************************************)
ArgVal(d, i) == ((d - 1) * i) % ValMod
ArgDict(names, d, idxs) ==
    [n \in {names[i] : i \in idxs} |-> ArgVal(d, CHOOSE i \in idxs : names[i] = n)]

\* None, the complete dictionaries, and one that lacks the last joint
ValueArgs(slf) ==
    {None}
    \cup {Dict(ArgDict(slf._joint_names, d, 1..slf._num_jnts)) : d \in 1..MaxArg}
    \cup {Dict(ArgDict(slf._joint_names, MaxArg, 1..(slf._num_jnts - 1)))}

Positions == {<<0, 0, 0>>, <<1, 0, 2>>}
Orientations == {None, List(<<0, 0, 0, 1>>), List(<<1, 0, 0, 0>>), List(<<0, 0, 0, -1>>)}
Seeds(n) == {None} \cup {List([i \in 1..len |-> i % ValMod]) : len \in (n - 1)..(n + 1)}
SolverStatuses == {-3, 0, 1}
SolverResults(n) == {Zeros(n), [i \in 1..n |-> i % ValMod]}

(***************************************************************************)
(* Actions                                                                 *)
(***************************************************************************)
Init ==
    \E limb \in Limbs :
        \E last \in {Len(JointSuffixes) - 1, Len(JointSuffixes)} :
            /\ self = Construct(limb)
            /\ source = Snapshot(LimbJointNames(limb), 1, 1..last)
            /\ call = IdleCall

\* the driver delivers joint state message m: the limb interface's callback
\* stores the angle, velocity and effort of every joint of the limb
JointStateUpdate(m) ==
    LET new == Snapshot(self._joint_names, m, 1..self._num_jnts)
    IN  /\ source' = [angles     |-> Merge(source.angles, new.angles),
                      velocities |-> Merge(source.velocities, new.velocities),
                      efforts    |-> Merge(source.efforts, new.efforts)]
        /\ source' # source
        /\ UNCHANGED <<self, call>>

JointsToKdl(type, values) ==
    LET r == joints_to_kdl(self, source, type, values)
    IN  /\ CanStart
        /\ call' = Finished("joints_to_kdl", [NoArgs EXCEPT !.type = type, !.values = values],
                            Outcome(r.err, r.val, <<r>>, <<>>))
        /\ UNCHANGED <<self, source>>

ForwardPositionKinematics(joint_values) ==
    /\ CanStart
    /\ call' = Finished("forward_position_kinematics",
                        [NoArgs EXCEPT !.joint_values = joint_values],
                        forward_position_kinematics(self, source, joint_values))
    /\ UNCHANGED <<self, source>>

ForwardVelocityKinematics(joint_velocities) ==
    /\ CanStart
    /\ call' = Finished("forward_velocity_kinematics",
                        [NoArgs EXCEPT !.joint_velocities = joint_velocities],
                        forward_velocity_kinematics(self, source, joint_velocities))
    /\ UNCHANGED <<self, source>>

\* a faulty variant: the method stores the seed's length as the joint count
InverseKinematicsResizing(position, orientation, seed, status, result) ==
    /\ CanStart
    /\ call' = Finished("inverse_kinematics",
                        [NoArgs EXCEPT !.position = position, !.orientation = orientation,
                                       !.seed = seed],
                        inverse_kinematics(self, source, position, orientation, seed,
                                           status, result))
    /\ self' = IF seed # None THEN [self EXCEPT !._num_jnts = Len(seed.data)] ELSE self
    /\ UNCHANGED source

InverseKinematics(position, orientation, seed, status, result) ==
    /\ CanStart
    /\ call' = Finished("inverse_kinematics",
                        [NoArgs EXCEPT !.position = position, !.orientation = orientation,
                                       !.seed = seed],
                        inverse_kinematics(self, source, position, orientation, seed,
                                           status, result))
    /\ UNCHANGED <<self, source>>

Jacobian(joint_values) ==
    /\ CanStart
    /\ call' = Finished("jacobian", [NoArgs EXCEPT !.joint_values = joint_values],
                        jacobian(self, source, joint_values))
    /\ UNCHANGED <<self, source>>

JacobianTranspose(joint_values) ==
    /\ CanStart
    /\ call' = Finished("jacobian_transpose", [NoArgs EXCEPT !.joint_values = joint_values],
                        jacobian_transpose(self, source, joint_values))
    /\ UNCHANGED <<self, source>>

JacobianPseudoInverse(joint_values) ==
    /\ CanStart
    /\ call' = Finished("jacobian_pseudo_inverse",
                        [NoArgs EXCEPT !.joint_values = joint_values],
                        jacobian_pseudo_inverse(self, source, joint_values))
    /\ UNCHANGED <<self, source>>

Inertia(joint_values) ==
    /\ CanStart
    /\ call' = Finished("inertia", [NoArgs EXCEPT !.joint_values = joint_values],
                        inertia(self, source, joint_values))
    /\ UNCHANGED <<self, source>>

\* cart_inertia, line 183: js_inertia = self.inertia(joint_values)
CartInertia(joint_values) ==
    LET o == inertia(self, source, joint_values)
        args == [NoArgs EXCEPT !.joint_values = joint_values]
    IN  /\ CanStart
        /\ call' = IF o.err # "none"
                   THEN Finished("cart_inertia", args, o)
                   ELSE Suspended("cart_inertia", args, "cart_inertia_jacobian",
                                  [NoLocals EXCEPT !.js_inertia = o.val], o)
        /\ UNCHANGED <<self, source>>

\* cart_inertia, lines 184-185: jacobian = self.jacobian(joint_values) and the result
CartInertiaJacobian ==
    LET j == jacobian(self, source, call.args.joint_values)
    IN  /\ call.pc = "cart_inertia_jacobian"
        /\ call' = Resumed(call, "done", call.locals, j,
                           cart_inertia_value(call.locals.js_inertia, j.val))
        /\ UNCHANGED <<self, source>>

\* coriolis_matrix, line 188: js_inertia = self.inertia(joint_values)
CoriolisMatrix(joint_values, joint_velocities) ==
    LET o == inertia(self, source, joint_values)
        args == [NoArgs EXCEPT !.joint_values = joint_values,
                               !.joint_velocities = joint_velocities]
    IN  /\ CanStart
        /\ call' = IF o.err # "none"
                   THEN Finished("coriolis_matrix", args, o)
                   ELSE Suspended("coriolis_matrix", args, "coriolis_positions",
                                  [NoLocals EXCEPT !.js_inertia = o.val], o)
        /\ UNCHANGED <<self, source>>

\* coriolis_matrix, line 195: the first argument, joints_to_kdl('positions', joint_values)
CoriolisPositions ==
    LET r == joints_to_kdl(self, source, "positions", call.args.joint_values)
    IN  /\ call.pc = "coriolis_positions"
        /\ call' = Resumed(call, "coriolis_velocities", [call.locals EXCEPT !.q = r.val],
                           Outcome(r.err, r.val, <<r>>, <<>>), None)
        /\ UNCHANGED <<self, source>>

\* coriolis_matrix, lines 195-196: the second argument,
\* joints_to_kdl('velocities', joint_velocities).value(), and the evaluation of C_func
CoriolisVelocities ==
    LET r == joints_to_kdl(self, source, "velocities", call.args.joint_velocities)
    IN  /\ call.pc = "coriolis_velocities"
        /\ call' = Resumed(call, "done", call.locals,
                           Outcome(r.err, r.val, <<r>>, <<>>),
                           coriolis_numeric(call.locals.js_inertia, call.locals.q, r.val))
        /\ UNCHANGED <<self, source>>

Next ==
    \/ \E m \in 1..MaxMsg : JointStateUpdate(m)
    \/ \E type \in Kinds : \E values \in ValueArgs(self) : JointsToKdl(type, values)
    \/ \E jv \in ValueArgs(self) : ForwardPositionKinematics(jv)
    \/ \E jvel \in ValueArgs(self) : ForwardVelocityKinematics(jvel)
    \/ \E position \in Positions : \E orientation \in Orientations :
         \E seed \in Seeds(self._num_jnts) : \E status \in SolverStatuses :
           \E result \in SolverResults(self._num_jnts) :
             InverseKinematics(position, orientation, seed, status, result)
    \/ \E jv \in ValueArgs(self) : Jacobian(jv)
    \/ \E jv \in ValueArgs(self) : JacobianTranspose(jv)
    \/ \E jv \in ValueArgs(self) : JacobianPseudoInverse(jv)
    \/ \E jv \in ValueArgs(self) : Inertia(jv)
    \/ \E jv \in ValueArgs(self) : CartInertia(jv)
    \/ CartInertiaJacobian
    \/ \E jv \in ValueArgs(self) : \E jvel \in ValueArgs(self) : CoriolisMatrix(jv, jvel)
    \/ CoriolisPositions
    \/ CoriolisVelocities

Spec == Init /\ [][Next]_vars

(***************************************************************************)
(* Properties                                                              *)
(***************************************************************************)
N == Len(JointSuffixes)
Done(op) == call.op = op /\ call.pc = "done"
\* a step of a query method that ran to its end in this step
Ran(op) == source' = source /\ call.pc \in {"idle", "done"} /\ call'.op = op /\ call'.pc = "done"

AllKnown(d) == \A i \in 1..N : self._joint_names[i] \in DOMAIN d
CurrentVector(d) == [i \in 1..N |-> d[self._joint_names[i]]]

\* C1 as stated: for every kind, joints_to_kdl with values omitted returns a
\* vector of exactly N entries whose entry i is the source's current value of
\* that kind for the i-th joint name.
C1_ReturnsVectorForEveryKind ==
    [][(Ran("joints_to_kdl") /\ call'.args.values = None /\ call'.err = "none")
       => /\ call'.ret.tag = "JntArray"
          /\ Len(call'.ret.data) = N
          /\ call'.ret.data =
               CurrentVector(cur_type_values(source, call'.args.type, None))]_vars

\* C1 amended: for positions and torques, joints_to_kdl with values omitted
\* returns a vector of exactly N entries whose entry i is the source's current
\* value of that kind for the i-th joint name; for velocities it returns a
\* paired structure whose value component q is that N-entry vector.
C1_CurrentValuesInChainOrder ==
    [][(Ran("joints_to_kdl") /\ call'.args.values = None /\ call'.err = "none")
       => LET cur == CurrentVector(cur_type_values(source, call'.args.type, None))
          IN  IF call'.args.type = "velocities"
              THEN /\ call'.ret.tag = "JntArrayVel"
                   /\ Len(call'.ret.q) = N
                   /\ call'.ret.q = cur
              ELSE /\ call'.ret.tag = "JntArray"
                   /\ Len(call'.ret.data) = N
                   /\ call'.ret.data = cur]_vars

C1_Witness ==
    /\ Done("joints_to_kdl") /\ call.args.values = None /\ call.err = "none"
    /\ call.args.type = "velocities"
    /\ call.ret.tag = "JntArrayVel"
    /\ AllKnown(source.velocities) /\ call.ret.q = CurrentVector(source.velocities)
    /\ \E i, j \in 1..N : call.ret.q[i] # call.ret.q[j]

\* the kind and the values argument of the joints_to_kdl call a method made
\* last, when it has made c.reads of them
LastRead(c) ==
    CASE c.op = "joints_to_kdl" -> [type |-> c.args.type, values |-> c.args.values]
      [] c.op = "forward_velocity_kinematics"
           -> [type |-> "velocities", values |-> c.args.joint_velocities]
      [] c.op = "inverse_kinematics" -> [type |-> "positions", values |-> None]
      [] c.op = "coriolis_matrix" /\ Len(c.reads) = 3
           -> [type |-> "velocities", values |-> c.args.joint_velocities]
      [] OTHER -> [type |-> "positions", values |-> c.args.joint_values]

\* C2: whenever a joint name of the chain is absent from the mapping
\* joints_to_kdl reads, it raises KeyError (the MissingJointError) and the query
\* that called it ends with that error and no result.
C2_MissingJointSurfaces ==
    [][(/\ source' = source
        /\ call'.op # "none"
        /\ call'.reads # <<>>
        /\ (call.pc \in {"idle", "done"} \/ Len(call'.reads) = Len(call.reads) + 1)
        /\ LET rd == LastRead(call')
           IN  ~AllKnown(cur_type_values(source, rd.type, rd.values)))
       => /\ call'.pc = "done"
          /\ call'.err = "KeyError"
          /\ call'.ret = None
          /\ call'.reads[Len(call'.reads)] = Raise("KeyError")]_vars

C2_Witness ==
    /\ Done("inverse_kinematics") /\ call.args.seed = None
    /\ call.err = "KeyError" /\ call.ret = None /\ call.solver = <<>>

\* C3: inverse_kinematics invokes CartToJnt at most once and, in every call that
\* returns, exactly once; it returns None iff that solve's status is negative,
\* and otherwise the N entries of result_angles.
C3_SingleSolve ==
    Done("inverse_kinematics")
    => /\ Len(call.solver) <= 1
       /\ call.err = "none"
          => /\ Len(call.solver) = 1
             /\ LET s == call.solver[1].arg
                IN  /\ (call.ret = None) <=> (s.status < 0)
                    /\ s.status >= 0
                       => /\ call.ret.tag = "ndarray"
                          /\ Len(call.ret.data) = N
                          /\ call.ret.data = s.result_angles.data

C3_Witness ==
    /\ Done("inverse_kinematics") /\ call.err = "none"
    /\ Len(call.solver) = 1 /\ call.solver[1].arg.status < 0 /\ call.ret = None

\* C4 as stated: a seed whose length differs from N fails with InvalidSeedError
\* before the solver is invoked.
C4_SeedLengthChecked ==
    (Done("inverse_kinematics") /\ call.args.seed # None /\ Len(call.args.seed.data) # N)
    => (call.err = "InvalidSeedError" /\ call.solver = <<>>)

\* C5 as stated: with orientation absent the goal handed to the solver carries
\* no orientation constraint, so it is the goal of no call that supplies an
\* orientation; with orientation supplied it carries that orientation and the
\* position.
C5_PositionOnlyGoal ==
    (Done("inverse_kinematics") /\ call.err = "none")
    => LET goal == call.solver[1].arg.goal
           o == call.args.orientation
       IN  IF o = None
           THEN /\ goal.p = call.args.position
                /\ \A given \in Orientations \ {None} :
                      goal # goal_pose(call.args.position, given)
           ELSE /\ goal.p = call.args.position
                /\ goal.M = RotationQuaternion(o.data[1], o.data[2], o.data[3], o.data[4])

\* dM[i][j]/dq_k of the chain's inertia M(q) = 2 * (I + q q^T)
DMassEntry(q, i, j, k) == 2 * ((IF i = k THEN q[j] ELSE 0) + (IF j = k THEN q[i] ELSE 0))

RECURSIVE ChristoffelSum(_, _, _, _, _)
ChristoffelSum(q, qdot, i, j, k) ==
    IF k = 0 THEN 0
    ELSE ChristoffelSum(q, qdot, i, j, k - 1)
         + ((DMassEntry(q, i, j, k) + DMassEntry(q, i, k, j) - DMassEntry(q, j, k, i)) \div 2)
           * qdot[k]

\* C6 as stated: coriolis_matrix(q, qdot)[i][j] is the sum over k of
\* 1/2 (dM[i][j]/dq_k + dM[i][k]/dq_j - dM[j][k]/dq_i) qdot_k, with the partial
\* derivatives of the inertia as a function of q.
C6_ChristoffelFormula ==
    (Done("coriolis_matrix") /\ call.err = "none")
    => LET q == call.reads[2].val.data
           qdot == call.reads[3].val.q
       IN  \A i, j \in 1..N : call.ret.at[i][j] = Rat(ChristoffelSum(q, qdot, i, j, N), 1)

\* C7: coriolis_matrix evaluated with all joint velocities zero returns the
\* zero matrix, for every joint configuration.
C7_ZeroVelocityZeroMatrix ==
    (Done("coriolis_matrix") /\ call.err = "none" /\ call.reads[3].val.q = Zeros(N))
    => \A i, j \in 1..N : call.ret.at[i][j] = RatZero

C7_Witness ==
    /\ Done("coriolis_matrix") /\ call.err = "none"
    /\ call.reads[3].val.q = Zeros(N)
    /\ call.reads[2].val.data # Zeros(N)
    /\ \A i, j \in 1..N : call.ret.at[i][j] = RatZero

\* C8 as stated: the velocity solver is handed a pair whose position component
\* is the joint positions and whose velocity component is the joint velocities
\* (supplied, or current when omitted).
C8_PairedPositionsAndVelocities ==
    [][(Ran("forward_velocity_kinematics") /\ call'.err = "none" /\ AllKnown(source.angles))
       => LET in == call'.solver[1].arg
              jv == call'.args.joint_velocities
          IN  /\ in.q = CurrentVector(source.angles)
              /\ in.qdot = CurrentVector(cur_type_values(source, "velocities", jv))]_vars

\* C9 as stated: with joint_values omitted, cart_inertia evaluates the inertia
\* and the Jacobian at the same joint configuration, and coriolis_matrix
\* evaluates the inertia and the position arguments of C_func at the same one.
C9_ResolvedOnce ==
    /\ (Done("cart_inertia") /\ call.err = "none" /\ call.args.joint_values = None)
       => call.reads[1].val = call.reads[2].val
    /\ (Done("coriolis_matrix") /\ call.err = "none" /\ call.args.joint_values = None)
       => call.reads[1].val = call.reads[2].val

\* C10: no step of a query, whether it returns, returns None or raises,
\* changes the engine (chain, joint names, N) or the Joint State Source; the
\* engine stays as constructed.
C10_QueriesChangeNothing ==
    [][/\ (call' # call) => (self' = self /\ source' = source)
       /\ \E limb \in Limbs : self' = Construct(limb)]_vars

C10_Witness ==
    /\ Done("inverse_kinematics") /\ call.err = "none" /\ call.ret = None
    /\ call.args.seed # None /\ Len(call.args.seed.data) # N

====
